---- MODULE Spec2Model ----
(***************************************************************************)
(* ArticlesCitationsService: the citation relation queries over a property *)
(* graph (Cypher), enriched from a search index.                           *)
(*                                                                         *)
(* Two specifications share the handlers' code:                            *)
(*   QuerySpec  the graph store answers by Cypher's semantics over a       *)
(*              bounded graph; each handler runs to its return.            *)
(*   Spec       the handlers as JavaScript async functions: the calls to   *)
(*              the graph store and the search index are issued, settle    *)
(*              in any order (fulfilled with any rows, or rejected), and   *)
(*              the handler resumes at its awaits.                         *)
(***************************************************************************)
EXTENDS Integers, Sequences, FiniteSets, TLC

VARIABLES
  graph,      \* the property graph (read-only for the service)
  op,         \* the operation called, "none" before the call
  filter,     \* its argument: [articleId, searchTerm, skip, limit]
  pc,         \* the handler's position
  countCall,  \* the promise of the count query
  pageCall,   \* the promise of the page query
  fetchAll,   \* Promise.all([count, page])
  lookups,    \* the promises of the per-row search-index lookups
  lookupAll,  \* Promise.all(lookups)
  nextRow,    \* articles.map: the next row to issue a lookup for
  totalCount, \* const totalCount
  articles,   \* const articles / cases / references
  ret,        \* the value the handler returned
  thrown,     \* the error the handler threw
  failures,   \* history: the errors of the rejected calls, in order of rejection
  issued      \* history: the calls made to the graph store and the search index

vars == <<graph, op, filter, pc, countCall, pageCall, fetchAll, lookups,
          lookupAll, nextRow, totalCount, articles, ret, thrown, failures,
          issued>>

----------------------------------------------------------------------------
(* Bounds *)

\* QuerySpec: the rows the MATCH .. OPTIONAL MATCH of a relation binds
MaxRows == 3
MaxSkip == 1
MaxLimit == 2
\* Spec: the rows a page query answers, the documents the lookups of one
\* call return in all, the count the count query answers
MaxPage == 2
MaxDocs == 3
MaxCount == 1

----------------------------------------------------------------------------
(* Strings are sequences of characters; NULL is Cypher's null / JavaScript's *)
(* undefined: a value that is no string.                                     *)

NULL == <<"null">>

\* toLower on one character
LowerChar(c) ==
  CASE c = "A" -> "a"
    [] c = "B" -> "b"
    [] OTHER -> c

\* Cypher toLower(): null for null
toLower(s) ==
  IF s = NULL THEN NULL ELSE [i \in 1..Len(s) |-> LowerChar(s[i])]

\* Cypher's ternary truth values
T3 == "true"
F3 == "false"
N3 == "null"

\* Cypher  s CONTAINS t : null when either side is null
CONTAINS(s, t) ==
  IF s = NULL \/ t = NULL THEN N3
  ELSE IF \E i \in 0..(Len(s) - Len(t)) :
            \A j \in 1..Len(t) : s[i + j] = t[j]
       THEN T3 ELSE F3

\* A mutant of OR3: a null operand makes the disjunction null
OR3NullPoisons(a, b) ==
  IF a = N3 \/ b = N3 THEN N3
  ELSE IF a = T3 \/ b = T3 THEN T3
  ELSE F3

\* Cypher  a OR b  in ternary logic
OR3(a, b) ==
  IF a = T3 \/ b = T3 THEN T3
  ELSE IF a = N3 \/ b = N3 THEN N3
  ELSE F3

RECURSIVE AnyOR3(_)
AnyOR3(vals) ==
  IF Len(vals) = 1 THEN vals[1] ELSE OR3(vals[1], AnyOR3(Tail(vals)))

\* JavaScript truthiness of an optional string: undefined and "" are falsy
Truthy(s) == s # NULL /\ s # <<>>

----------------------------------------------------------------------------
(* The graph.  The article every relationship of the model attaches to is  *)
(* AnchorId; graph[r] lists, in the store's order, the nodes related to it *)
(* by relation r: props (missing property = NULL), the number of matching  *)
(* relationship edges, the short of each IS_NAMED Name node.               *)

Relations == {"citedBy", "citing", "cases", "references"}

AnchorId == <<"5">>
OtherId == <<"7">>
ArticleIds == {AnchorId, OtherId}

PropKeys == {"number", "text", "judgment", "facts", "reasoning", "headnotes",
             "year", "decision_type", "context"}

CaseOnlyKeys == {"judgment", "facts", "reasoning", "headnotes", "year",
                 "decision_type"}

Digits == <<"1", "2", "3", "4">>

NameShorts == <<(<<"A", "b">>), (<<"c">>)>>

NoProps == [k \in PropKeys |-> NULL]

\* References have no Name
NamesOf(r, names) == IF r = "references" THEN <<>> ELSE names

\* The node shapes of at most n bound rows: e matching relationship edges and
\* the shorts of its Name nodes (a row per edge and Name, one row per edge
\* when it has no Name)
NameLists(n) ==
  { [i \in 1..k |-> IF i <= j THEN NameShorts[1] ELSE NameShorts[2]] :
      <<k, j>> \in { kj \in (0..n) \X (0..n) : kj[2] <= kj[1] } }

Weight(s) == s.edges * (IF s.names = <<>> THEN 1 ELSE Len(s.names))

NodeShapes(n) ==
  { s \in [edges : 1..n, names : NameLists(n)] : Weight(s) <= n }

RECURSIVE Shapes(_)
Shapes(n) ==
  {<<>>} \cup
  UNION { { <<s>> \o rest : rest \in Shapes(n - Weight(s)) } : s \in NodeShapes(n) }

Decorated(i) ==
  [NoProps EXCEPT !.number = <<Digits[i]>>,
                  !.text = IF i % 2 = 0 THEN <<"A", "b">> ELSE NULL,
                  !.context = IF i % 2 = 0 THEN <<"A", "b">> ELSE NULL]

\* Graphs that vary the multiplicities: every relation holds nodes of the
\* same shape
ShapeGraph(shape) ==
  [r \in Relations |->
     [i \in 1..Len(shape) |->
        [props |-> Decorated(i),
         edges |-> shape[i].edges,
         names |-> NamesOf(r, shape[i].names),
         citing_cases |-> i % 2]]]

ShapeGraphs == { ShapeGraph(shape) : shape \in Shapes(MaxRows) }

\* Graphs that vary the properties: one node per relation, with or without a
\* Name, any of its searchable properties missing
FieldVals == {NULL, <<"A", "b">>, <<"c">>}

FieldProps ==
  { [k \in PropKeys |->
       CASE k = "number" -> nt[1]
         [] k = "text" -> nt[2]
         [] k = "context" -> nt[3]
         [] OTHER -> IF k = only THEN <<"A", "b">> ELSE NULL] :
      <<nt, only>> \in
        ((FieldVals \ {NULL}) \X FieldVals \X FieldVals)
          \X (CaseOnlyKeys \cup {"none"}) }

FieldGraphs ==
  { [r \in Relations |->
       << [props |-> p, edges |-> 1, names |-> NamesOf(r, ns),
           citing_cases |-> 0] >>] :
      <<p, ns>> \in FieldProps \X NameLists(1) }

Graphs == ShapeGraphs \cup FieldGraphs

EmptyGraph == [r \in Relations |-> <<>>]

----------------------------------------------------------------------------
(* The operations and their filters *)

EnrichedOps == {"getCitedByArticles", "getArticleCitingOtherArticles",
                "getCasesCitingArticle"}
PaginatedOps == EnrichedOps \cup {"getReferencesWithArticle"}
CountOps == {"getCitedByArticlesCount", "getArticleCitingOtherArticlesCount",
             "getCasesCitingArticleCount", "getReferencesWithArticleCount"}

RelationOf(o) ==
  CASE o \in {"getCitedByArticles", "getCitedByArticlesCount"} -> "citedBy"
    [] o \in {"getArticleCitingOtherArticles",
              "getArticleCitingOtherArticlesCount"} -> "citing"
    [] o \in {"getCasesCitingArticle", "getCasesCitingArticleCount"} -> "cases"
    [] OTHER -> "references"

SearchTerms == {NULL, <<>>, <<"a">>, <<"B">>}

Filters ==
  [articleId : ArticleIds, searchTerm : SearchTerms,
   skip : 0..MaxSkip, limit : 0..MaxLimit]

----------------------------------------------------------------------------
(* Cypher, as the queries of the service use it *)

RECURSIVE Repeat(_, _)
Repeat(s, n) == IF n = 0 THEN <<>> ELSE s \o Repeat(s, n - 1)

RECURSIVE Flatten(_)
Flatten(ss) == IF ss = <<>> THEN <<>> ELSE Head(ss) \o Flatten(Tail(ss))

\* A mutant of NodeRows: MATCH for OPTIONAL MATCH, a node without a Name
\* binds no row
NodeRowsNamedOnly(g, r, i) ==
  LET node == g[r][i]
  IN  IF r # "references" /\ node.names = <<>> THEN <<>>
      ELSE Repeat(IF node.names = <<>> THEN << [a |-> i, n |-> NULL] >>
                  ELSE [k \in 1..Len(node.names) |-> [a |-> i, n |-> node.names[k]]],
                  node.edges)

\* MATCH (subject)-[rel]-(article {number: $articleId})
\* OPTIONAL MATCH (subject)-[:IS_NAMED]->(n:Name)
\* the rows bound: one per matching edge and Name, n = null without a Name
NodeRows(g, r, i) ==
  LET node == g[r][i]
      named == IF node.names = <<>>
               THEN << [a |-> i, n |-> NULL] >>
               ELSE [k \in 1..Len(node.names) |-> [a |-> i, n |-> node.names[k]]]
  IN  Repeat(named, node.edges)

MatchRows(g, r, articleId) ==
  IF articleId # AnchorId THEN <<>>
  ELSE Flatten([i \in 1..Len(g[r]) |-> NodeRows(g, r, i)])

\* The properties the search condition of a relation reads, in its order
SearchFields(r) ==
  CASE r \in {"citedBy", "citing"} -> <<"number", "text">>
    [] r = "cases" -> <<"number", "judgment", "facts", "reasoning",
                         "headnotes", "year", "decision_type">>
    [] OTHER -> <<"context", "text">>

\* WHERE toLower(n.short) CONTAINS toLower($searchTerm)
\*    OR toLower(alias.field) CONTAINS toLower($searchTerm) OR ...
\* (getReferencesWithArticle: the fields only)
WhereValue(g, r, term, row) ==
  LET props == g[r][row.a].props
      lowerSearch == toLower(term)
      fields == [k \in 1..Len(SearchFields(r)) |->
                   CONTAINS(toLower(props[SearchFields(r)[k]]), lowerSearch)]
  IN  IF r = "references" THEN AnyOR3(fields)
      ELSE AnyOR3(<<CONTAINS(toLower(row.n), lowerSearch)>> \o fields)

\* getSearchCondition: '' when !searchTerm, else the WHERE clause; a row
\* passes a WHERE whose value is true (not false, not null)
SearchCondition(g, r, term, row) ==
  IF ~Truthy(term) THEN TRUE ELSE WhereValue(g, r, term, row) = T3

Matching(g, r, f) ==
  SelectSeq(MatchRows(g, r, f.articleId),
            LAMBDA row : SearchCondition(g, r, f.searchTerm, row))

\* getCountQuery: RETURN count(subject) AS totalCount: an aggregation, one
\* row whatever the input
CountQuery(g, r, f) == << [totalCount |-> Len(Matching(g, r, f))] >>

\* A mutant of CountOnlyQuery: the OPTIONAL MATCH left out, a row per edge
RECURSIVE EdgesFrom(_, _, _)
EdgesFrom(g, r, i) ==
  IF i > Len(g[r]) THEN 0 ELSE g[r][i].edges + EdgesFrom(g, r, i + 1)

CountOnlyQueryEdges(g, r, articleId) ==
  << [count |-> IF articleId # AnchorId THEN 0 ELSE EdgesFrom(g, r, 1)] >>

\* The count-only operations' query: the same MATCH, no WHERE
CountOnlyQuery(g, r, articleId) ==
  << [count |-> Len(MatchRows(g, r, articleId))] >>

\* RETURN DISTINCT subject, n.short AS name, elementId(subject)
\* (getReferencesWithArticle: RETURN DISTINCT r)
Project(r, row) ==
  IF r = "references" THEN [a |-> row.a, n |-> NULL] ELSE row

RECURSIVE Distinct(_)
Distinct(rows) ==
  IF rows = <<>> THEN <<>>
  ELSE LET init == Distinct(SubSeq(rows, 1, Len(rows) - 1))
           last == rows[Len(rows)]
       IN  IF \E k \in 1..Len(init) : init[k] = last THEN init
           ELSE Append(init, last)

\* ORDER BY subject.citing_cases DESC; rows of equal citing_cases stay in the
\* store's order
RECURSIVE OrderByCitingCases(_, _, _)
OrderByCitingCases(g, r, rows) ==
  IF rows = <<>> THEN <<>>
  ELSE LET init == OrderByCitingCases(g, r, SubSeq(rows, 1, Len(rows) - 1))
           last == rows[Len(rows)]
           cc(row) == g[r][row.a].citing_cases
           at == Cardinality({k \in 1..Len(init) : cc(init[k]) >= cc(last)})
       IN  SubSeq(init, 1, at) \o <<last>> \o SubSeq(init, at + 1, Len(init))

\* SKIP toInteger($skip) LIMIT toInteger($limit)
SkipLimit(rows, skip, limit) ==
  SubSeq(rows, skip + 1, IF skip + limit < Len(rows) THEN skip + limit ELSE Len(rows))

Record(g, r, row) ==
  [elementId |-> row.a, props |-> g[r][row.a].props, name |-> row.n]

\* getArticlesQuery / getCasesQuery / getReferencesQuery without SKIP, LIMIT
PageRows(g, r, f) ==
  LET matching == Matching(g, r, f)
      distinct == Distinct([k \in 1..Len(matching) |-> Project(r, matching[k])])
      ordered == IF r = "references" THEN distinct
                 ELSE OrderByCitingCases(g, r, distinct)
  IN  [k \in 1..Len(ordered) |-> Record(g, r, ordered[k])]

PageQuery(g, r, f) == SkipLimit(PageRows(g, r, f), f.skip, f.limit)

----------------------------------------------------------------------------
(* The handlers' own computations *)

Unset == <<"unset">>

Value(v) == [ok |-> TRUE, value |-> v]
Throw(e) == [ok |-> FALSE, error |-> e]

\* A mutant of ExtractTotal: countResult[0].get('totalCount').low || 0
ExtractTotalUnguarded(countResult) ==
  IF Len(countResult) = 0 THEN Throw(<<"TypeError">>)
  ELSE IF countResult[1].totalCount = 0 THEN Value(0)
  ELSE Value(countResult[1].totalCount)

\* countResult[0]?.get('totalCount').low || 0
ExtractTotal(countResult) ==
  IF Len(countResult) = 0 THEN Value(0)
  ELSE IF countResult[1].totalCount = 0 THEN Value(0)
  ELSE Value(countResult[1].totalCount)

\* result[0].get('count').low : result[0] is undefined when there is no row
ExtractCount(result) ==
  IF Len(result) = 0 THEN Throw(<<"TypeError">>)
  ELSE Value(result[1].count)

\* articlesResult.map((record) => ({ ...properties, id, name }))
\* referencesResult.map((record) => ({ ...properties }))
MapRecords(o, rows) ==
  [k \in 1..Len(rows) |->
     IF o = "getReferencesWithArticle" THEN [props |-> rows[k].props]
     ELSE [props |-> rows[k].props, id |-> rows[k].elementId,
           name |-> rows[k].name]]

\* The key of the lookup of a row: match: { number: articleData.number }
LookupKey(record) == record.props.number

\* a['name'] / a['caseName']
NameKey(o) == IF o = "getCasesCitingArticle" THEN "caseName" ELSE "name"

HasName(o, doc) == IF Truthy(doc[NameKey(o)]) THEN 1 ELSE 0

\* A mutant of Compare: (a, b) => aHasName - bHasName
CompareReversed(o, a, b) == HasName(o, a) - HasName(o, b)

\* (a, b) => bHasName - aHasName
Compare(o, a, b) == HasName(o, b) - HasName(o, a)

\* Array.prototype.sort: stable; each element goes after the last one that
\* does not compare greater than it
RECURSIVE Sort(_, _)
Sort(o, docs) ==
  IF docs = <<>> THEN <<>>
  ELSE LET init == Sort(o, SubSeq(docs, 1, Len(docs) - 1))
           last == docs[Len(docs)]
           keep == {k \in 1..Len(init) : Compare(o, init[k], last) <= 0}
           at == IF keep = {} THEN 0
                 ELSE CHOOSE k \in keep : \A j \in keep : j <= k
       IN  SubSeq(init, 1, at) \o <<last>> \o SubSeq(init, at + 1, Len(init))

\* elasticSearchResults.flat().sort(...), { items, total }
Merge(o, results, total) ==
  [items |-> Sort(o, Flatten(results)), total |-> total]

----------------------------------------------------------------------------
(* Promises *)

NotIssued == [state |-> "none"]
Pending == [state |-> "pending"]
Fulfilled(v) == [state |-> "fulfilled", value |-> v]
Rejected(e) == [state |-> "rejected", reason |-> e]

\* Promise.all over promises ps, itself all: rejected with the reason of the
\* first rejected promise, fulfilled with the values in the promises' order
\* once all are fulfilled
PromiseAll(all, ps) ==
  IF all.state # "pending" THEN all
  ELSE IF \E k \in 1..Len(ps) : ps[k].state = "rejected"
       THEN Rejected(ps[CHOOSE k \in 1..Len(ps) : ps[k].state = "rejected"].reason)
  ELSE IF \A k \in 1..Len(ps) : ps[k].state = "fulfilled"
       THEN Fulfilled([k \in 1..Len(ps) |-> ps[k].value])
  ELSE all

----------------------------------------------------------------------------
(* The handlers as async functions (Spec).  The graph store and the search *)
(* index are collaborators: a call is rejected, or fulfilled with any rows. *)

Idle ==
  /\ op = "none" /\ filter = Unset /\ pc = "idle"
  /\ countCall = NotIssued /\ pageCall = NotIssued /\ fetchAll = NotIssued
  /\ lookups = <<>> /\ lookupAll = NotIssued /\ nextRow = 0
  /\ totalCount = Unset /\ articles = <<>> /\ ret = Unset /\ thrown = Unset
  /\ failures = <<>> /\ issued = <<>>

Init == graph = EmptyGraph /\ Idle

\* The handler is at an await, or over: only then does a settled promise run
\* its reactions (run to completion)
Suspended == pc \in {"awaitFetch", "awaitLookups", "awaitCount", "returned", "thrown"}

ECount == <<"ECount">>
EPage == <<"EPage">>
ELookup(k) == <<"ELookup", k>>
TypeError == <<"TypeError">>

\* A mutant of Fail: the catch logs and returns an empty result
FailSwallowed(error) ==
  pc' = "returned" /\ ret' = [items |-> <<>>, total |-> 0] /\ UNCHANGED thrown

\* catch (error) { this.logger.error(...); throw error; }
Fail(error) == pc' = "thrown" /\ thrown' = error /\ UNCHANGED ret

\* return value
Return(value) == pc' = "returned" /\ ret' = value /\ UNCHANGED thrown

\* The call of an operation
Call(o, f) ==
  /\ pc = "idle"
  /\ op' = o /\ filter' = f
  /\ pc' = IF o \in PaginatedOps THEN "issueCount" ELSE "issueCountOnly"
  /\ UNCHANGED <<graph, countCall, pageCall, fetchAll, lookups, lookupAll,
                 nextRow, totalCount, articles, ret, thrown, failures, issued>>

\* Promise.all([ runQuery(getCountQuery(), ..), .. : the first element
IssueCountQuery ==
  /\ pc = "issueCount"
  /\ countCall' = Pending
  /\ issued' = Append(issued, <<"count">>)
  /\ pc' = "issuePage"
  /\ UNCHANGED <<graph, op, filter, pageCall, fetchAll, lookups, lookupAll,
                 nextRow, totalCount, articles, ret, thrown, failures>>

\* .. runQuery(getArticlesQuery(), ..) ]) and the await of Promise.all
IssuePageQuery ==
  /\ pc = "issuePage"
  /\ pageCall' = Pending
  /\ fetchAll' = Pending
  /\ issued' = Append(issued, <<"page">>)
  /\ pc' = "awaitFetch"
  /\ UNCHANGED <<graph, op, filter, countCall, lookups, lookupAll, nextRow,
                 totalCount, articles, ret, thrown, failures>>

\* What the graph store may answer a count query
CountField(o) == IF o \in PaginatedOps THEN "totalCount" ELSE "count"

CountOutcomes(o) ==
  {Rejected(ECount), Fulfilled(<<>>)} \cup
  { Fulfilled(<< [f \in {CountField(o)} |-> n] >>) : n \in 0..MaxCount }

\* The count query settles
SettleCount(outcome) ==
  /\ Suspended
  /\ countCall.state = "pending"
  /\ countCall' = outcome
  /\ fetchAll' = IF op \in PaginatedOps
                 THEN PromiseAll(fetchAll, <<outcome, pageCall>>) ELSE fetchAll
  /\ failures' = IF outcome.state = "rejected"
                 THEN Append(failures, outcome.reason) ELSE failures
  /\ UNCHANGED <<graph, op, filter, pc, pageCall, lookups, lookupAll, nextRow,
                 totalCount, articles, ret, thrown, issued>>

\* What the graph store may answer a page query: n rows of distinct nodes
StoreRows(n) ==
  [i \in 1..n |-> [elementId |-> i,
                   props |-> [NoProps EXCEPT !.number = <<Digits[i]>>],
                   name |-> NULL]]

PageOutcomes == {Rejected(EPage)} \cup { Fulfilled(StoreRows(n)) : n \in 0..MaxPage }

\* The page query settles
SettlePage(outcome) ==
  /\ Suspended
  /\ pageCall.state = "pending"
  /\ pageCall' = outcome
  /\ fetchAll' = PromiseAll(fetchAll, <<countCall, outcome>>)
  /\ failures' = IF outcome.state = "rejected"
                 THEN Append(failures, outcome.reason) ELSE failures
  /\ UNCHANGED <<graph, op, filter, pc, countCall, lookups, lookupAll, nextRow,
                 totalCount, articles, ret, thrown, issued>>

\* After  await Promise.all([count, page]) : the catch, or totalCount, the
\* records and (references) the return
ResumeFetch ==
  /\ pc = "awaitFetch"
  /\ fetchAll.state # "pending"
  /\ IF fetchAll.state = "rejected"
     THEN /\ Fail(fetchAll.reason)
          /\ UNCHANGED <<totalCount, articles, lookups, lookupAll, nextRow>>
     ELSE LET total == ExtractTotal(fetchAll.value[1])
              records == MapRecords(op, fetchAll.value[2])
          IN  IF ~total.ok
              THEN /\ Fail(total.error)
                   /\ UNCHANGED <<totalCount, articles, lookups, lookupAll, nextRow>>
              ELSE /\ totalCount' = total.value
                   /\ articles' = records
                   /\ IF op = "getReferencesWithArticle"
                      THEN /\ Return([items |-> records, total |-> total.value])
                           /\ UNCHANGED <<lookups, lookupAll, nextRow>>
                      ELSE /\ lookups' = [k \in 1..Len(records) |-> NotIssued]
                           /\ nextRow' = 1
                           /\ IF records = <<>>
                              THEN pc' = "awaitLookups" /\ lookupAll' = Fulfilled(<<>>)
                              ELSE pc' = "issueLookups" /\ lookupAll' = lookupAll
                           /\ UNCHANGED <<ret, thrown>>
  /\ UNCHANGED <<graph, op, filter, countCall, pageCall, fetchAll, failures, issued>>

IndexOf(o) == IF o = "getCasesCitingArticle" THEN "cases" ELSE "articles"

\* A mutant of IssueLookup: each lookup awaited before the next is issued
IssueLookupAwaitEach ==
  /\ pc = "issueLookups"
  /\ lookups' = [lookups EXCEPT ![nextRow] = Pending]
  /\ issued' = Append(issued, <<"search", IndexOf(op), LookupKey(articles[nextRow])>>)
  /\ nextRow' = nextRow + 1
  /\ pc' = "awaitLookups" /\ lookupAll' = Pending
  /\ UNCHANGED <<graph, op, filter, countCall, pageCall, fetchAll, totalCount,
                 articles, ret, thrown, failures>>

\* articles.map(async (articleData) => { .. elasticsearchService.search(query) :
\* the callback runs to its await for each row in turn; then Promise.all
IssueLookup ==
  /\ pc = "issueLookups"
  /\ lookups' = [lookups EXCEPT ![nextRow] = Pending]
  /\ issued' = Append(issued, <<"search", IndexOf(op), LookupKey(articles[nextRow])>>)
  /\ nextRow' = nextRow + 1
  /\ IF nextRow = Len(articles)
     THEN pc' = "awaitLookups" /\ lookupAll' = Pending
     ELSE pc' = pc /\ lookupAll' = lookupAll
  /\ UNCHANGED <<graph, op, filter, countCall, pageCall, fetchAll, totalCount,
                 articles, ret, thrown, failures>>

\* The _source of the hits a lookup may return
Sources ==
  { [name |-> NULL, caseName |-> NULL],
    [name |-> <<"A", "b">>, caseName |-> NULL],
    [name |-> NULL, caseName |-> <<"A", "b">>],
    [name |-> <<>>, caseName |-> <<>>] }

RECURSIVE SeqsUpTo(_, _)
SeqsUpTo(S, n) ==
  IF n = 0 THEN {<<>>}
  ELSE SeqsUpTo(S, n - 1) \cup
       { Append(q, x) : <<q, x>> \in { q \in SeqsUpTo(S, n - 1) : Len(q) = n - 1 } \X S }

Returned(ls) ==
  Len(Flatten([k \in 1..Len(ls) |->
                 IF ls[k].state = "fulfilled" THEN ls[k].value ELSE <<>>]))

\* result.hits.hits.map((hit) => hit._source): hit j of the lookup of row k
Hits(k, sources) ==
  [j \in 1..Len(sources) |->
     [id |-> <<k, j>>, name |-> sources[j].name, caseName |-> sources[j].caseName]]

LookupOutcomes(k) ==
  {Rejected(ELookup(k))} \cup
  { Fulfilled(Hits(k, q)) : q \in SeqsUpTo(Sources, MaxDocs - Returned(lookups)) }

\* The lookup of row k settles
SettleLookup(k, outcome) ==
  /\ Suspended
  /\ lookups[k].state = "pending"
  /\ lookups' = [lookups EXCEPT ![k] = outcome]
  /\ lookupAll' = PromiseAll(lookupAll, lookups')
  /\ failures' = IF outcome.state = "rejected"
                 THEN Append(failures, outcome.reason) ELSE failures
  /\ UNCHANGED <<graph, op, filter, pc, countCall, pageCall, fetchAll, nextRow,
                 totalCount, articles, ret, thrown, issued>>

\* After  await Promise.all(lookups) : the catch, or flat, sort and return
ResumeLookups ==
  /\ pc = "awaitLookups"
  /\ lookupAll.state # "pending"
  /\ IF lookupAll.state = "rejected"
     THEN Fail(lookupAll.reason)
     ELSE Return(Merge(op, lookupAll.value, totalCount))
  /\ UNCHANGED <<graph, op, filter, countCall, pageCall, fetchAll, lookups,
                 lookupAll, nextRow, totalCount, articles, failures, issued>>

\* The count-only operations: await this.neo4jService.runQuery(query, ..)
IssueCountOnly ==
  /\ pc = "issueCountOnly"
  /\ countCall' = Pending
  /\ issued' = Append(issued, <<"count">>)
  /\ pc' = "awaitCount"
  /\ UNCHANGED <<graph, op, filter, pageCall, fetchAll, lookups, lookupAll,
                 nextRow, totalCount, articles, ret, thrown, failures>>

\* return result[0].get('count').low, or the catch
ResumeCount ==
  /\ pc = "awaitCount"
  /\ countCall.state # "pending"
  /\ IF countCall.state = "rejected"
     THEN Fail(countCall.reason)
     ELSE LET count == ExtractCount(countCall.value)
          IN  IF count.ok THEN Return(count.value) ELSE Fail(count.error)
  /\ UNCHANGED <<graph, op, filter, countCall, pageCall, fetchAll, lookups,
                 lookupAll, nextRow, totalCount, articles, failures, issued>>

\* What the store answers does not depend on the filter here
SomeFilter == [articleId |-> AnchorId, searchTerm |-> NULL, skip |-> 0, limit |-> MaxLimit]

Next ==
  \/ \E o \in PaginatedOps : Call(o, SomeFilter)
  \/ \E o \in CountOps : Call(o, [articleId |-> AnchorId])
  \/ IssueCountQuery
  \/ IssuePageQuery
  \/ \E outcome \in CountOutcomes(op) : SettleCount(outcome)
  \/ \E outcome \in PageOutcomes : SettlePage(outcome)
  \/ ResumeFetch
  \/ IssueLookup
  \/ \E k \in 1..Len(lookups) : \E outcome \in LookupOutcomes(k) : SettleLookup(k, outcome)
  \/ ResumeLookups
  \/ IssueCountOnly
  \/ ResumeCount

Spec == Init /\ [][Next]_vars

----------------------------------------------------------------------------
(* The handlers over a graph (QuerySpec): the graph store answers each     *)
(* query by its Cypher, the search index mirrors the graph, no call fails,  *)
(* and the handler runs from its call to its return.                        *)

\* The search index: one document per node of the relation, carrying the
\* short of its first Name, found by its number
IndexDoc(g, o, i) ==
  LET node == g[RelationOf(o)][i]
      short == IF node.names = <<>> THEN NULL ELSE node.names[1]
  IN  [id |-> <<i, 1>>,
       name |-> IF NameKey(o) = "name" THEN short ELSE NULL,
       caseName |-> IF NameKey(o) = "caseName" THEN short ELSE NULL]

Search(g, o, number) ==
  LET nodes == g[RelationOf(o)]
      RECURSIVE From(_)
      From(i) == IF i > Len(nodes) THEN <<>>
                 ELSE (IF nodes[i].props.number = number
                       THEN <<IndexDoc(g, o, i)>> ELSE <<>>) \o From(i + 1)
  IN  From(1)

RunEnriched(o, f) ==
  LET countResult == CountQuery(graph, RelationOf(o), f)
      pageResult == PageQuery(graph, RelationOf(o), f)
      total == ExtractTotal(countResult)
      records == MapRecords(o, pageResult)
      results == [k \in 1..Len(records) |-> Search(graph, o, LookupKey(records[k]))]
  IN  /\ pc = "idle"
      /\ op' = o /\ filter' = f
      /\ countCall' = Fulfilled(countResult)
      /\ pageCall' = Fulfilled(pageResult)
      /\ fetchAll' = Fulfilled(<<countResult, pageResult>>)
      /\ totalCount' = total.value
      /\ articles' = records
      /\ lookups' = [k \in 1..Len(records) |-> Fulfilled(results[k])]
      /\ lookupAll' = Fulfilled(results)
      /\ nextRow' = Len(records) + 1
      /\ issued' = <<(<<"count">>), (<<"page">>)>> \o
                   [k \in 1..Len(records) |->
                      <<"search", IndexOf(o), LookupKey(records[k])>>]
      /\ Return(Merge(o, results, total.value))
      /\ UNCHANGED <<graph, failures>>

RunReferences(o, f) ==
  LET countResult == CountQuery(graph, RelationOf(o), f)
      pageResult == PageQuery(graph, RelationOf(o), f)
      total == ExtractTotal(countResult)
      records == MapRecords(o, pageResult)
  IN  /\ pc = "idle"
      /\ op' = o /\ filter' = f
      /\ countCall' = Fulfilled(countResult)
      /\ pageCall' = Fulfilled(pageResult)
      /\ fetchAll' = Fulfilled(<<countResult, pageResult>>)
      /\ totalCount' = total.value
      /\ articles' = records
      /\ issued' = <<(<<"count">>), (<<"page">>)>>
      /\ Return([items |-> records, total |-> total.value])
      /\ UNCHANGED <<graph, lookups, lookupAll, nextRow, failures>>

RunCountOnly(o, articleId) ==
  LET result == CountOnlyQuery(graph, RelationOf(o), articleId)
      count == ExtractCount(result)
  IN  /\ pc = "idle"
      /\ op' = o /\ filter' = [articleId |-> articleId]
      /\ countCall' = Fulfilled(result)
      /\ issued' = << <<"count">> >>
      /\ IF count.ok THEN Return(count.value) ELSE Fail(count.error)
      /\ UNCHANGED <<graph, pageCall, fetchAll, lookups, lookupAll, nextRow,
                     totalCount, articles, failures>>

getCitedByArticles(f) == RunEnriched("getCitedByArticles", f)
getCitedByArticlesCount(articleId) == RunCountOnly("getCitedByArticlesCount", articleId)
getArticleCitingOtherArticles(f) == RunEnriched("getArticleCitingOtherArticles", f)
getArticleCitingOtherArticlesCount(articleId) ==
  RunCountOnly("getArticleCitingOtherArticlesCount", articleId)
getCasesCitingArticle(f) == RunEnriched("getCasesCitingArticle", f)
getCasesCitingArticleCount(articleId) == RunCountOnly("getCasesCitingArticleCount", articleId)
getReferencesWithArticle(f) == RunReferences("getReferencesWithArticle", f)
getReferencesWithArticleCount(articleId) ==
  RunCountOnly("getReferencesWithArticleCount", articleId)

QueryInit == graph \in Graphs /\ Idle

QueryNext ==
  \/ \E f \in Filters : getCitedByArticles(f)
  \/ \E id \in ArticleIds : getCitedByArticlesCount(id)
  \/ \E f \in Filters : getArticleCitingOtherArticles(f)
  \/ \E id \in ArticleIds : getArticleCitingOtherArticlesCount(id)
  \/ \E f \in Filters : getCasesCitingArticle(f)
  \/ \E id \in ArticleIds : getCasesCitingArticleCount(id)
  \/ \E f \in Filters : getReferencesWithArticle(f)
  \/ \E id \in ArticleIds : getReferencesWithArticleCount(id)

QuerySpec == QueryInit /\ [][QueryNext]_vars

----------------------------------------------------------------------------
(* Properties *)

Done == pc \in {"returned", "thrown"}

Rel == RelationOf(op)

\* The nodes some bound row of which passes the search condition
MatchingNodes(g, r, f) ==
  LET matching == Matching(g, r, f)
  IN  { matching[k].a : k \in 1..Len(matching) }

\* C1: for the three enriched operations, the total returned equals the
\* number of rows the page query returns without SKIP and LIMIT, the number
\* of distinct matching entities.
C1_TotalIsUnpaginatedRowCount ==
  (pc = "returned" /\ op \in EnrichedOps) =>
     /\ ret.total = Len(PageRows(graph, Rel, filter))
     /\ ret.total = Cardinality(MatchingNodes(graph, Rel, filter))

\* C8: getReferencesWithArticle returns the property maps of the page rows
\* as they are, in their order, with no lookup, and total is the number of
\* distinct Reference nodes that mention the article and pass the predicate.
C8_ReferencesRawAndDistinctTotal ==
  (pc = "returned" /\ op = "getReferencesWithArticle") =>
     /\ Len(ret.items) = Len(pageCall.value)
     /\ \A k \in 1..Len(ret.items) : ret.items[k] = [props |-> pageCall.value[k].props]
     /\ \A k \in 1..Len(issued) : issued[k][1] # "search"
     /\ ret.total = Cardinality(MatchingNodes(graph, Rel, filter))

\* The first half of C8 alone (what the code does do)
C8_ReferencesRaw ==
  (pc = "returned" /\ op = "getReferencesWithArticle") =>
     /\ Len(ret.items) = Len(pageCall.value)
     /\ \A k \in 1..Len(ret.items) : ret.items[k] = [props |-> pageCall.value[k].props]
     /\ \A k \in 1..Len(issued) : issued[k][1] # "search"

\* Case-insensitive substring, two-valued: a missing value contains nothing
ContainsCI(s, t) ==
  /\ s # NULL
  /\ \E i \in 0..(Len(s) - Len(t)) :
       \A j \in 1..Len(t) : LowerChar(s[i + j]) = LowerChar(t[j])

RowHasTerm(g, r, term, row) ==
  \/ r # "references" /\ ContainsCI(row.n, term)
  \/ \E k \in 1..Len(SearchFields(r)) :
       ContainsCI(g[r][row.a].props[SearchFields(r)[k]], term)

\* C6: with a non-empty searchTerm a bound row is counted, and eligible for
\* the page, iff its Name or one of the relation's search fields contains the
\* term, case-insensitively; a missing Name or field matches nothing and
\* raises nothing.
C6_TermMatchesAnyField ==
  (Done /\ op \in PaginatedOps /\ Truthy(filter.searchTerm)) =>
     LET rows == MatchRows(graph, Rel, filter.articleId)
         hits == { k \in 1..Len(rows) : RowHasTerm(graph, Rel, filter.searchTerm, rows[k]) }
         page == PageRows(graph, Rel, filter)
     IN  /\ pc = "returned"
         /\ ret.total = Cardinality(hits)
         /\ \A k \in hits : \E j \in 1..Len(page) :
               /\ page[j].elementId = rows[k].a
               /\ page[j].name = Project(Rel, rows[k]).n
         /\ \A j \in 1..Len(page) : \E k \in hits :
               /\ page[j].elementId = rows[k].a
               /\ page[j].name = Project(Rel, rows[k]).n
         /\ \A j \in 1..Len(pageCall.value) : \E k \in hits :
               pageCall.value[j].elementId = rows[k].a

\* C6's case: a term that matches by case folding only, a subject without a
\* Name whose number contains it
C6_Witness ==
  /\ pc = "returned" /\ op = "getCitedByArticles"
  /\ filter.searchTerm = <<"B">> /\ filter.articleId = AnchorId
  /\ Len(graph[Rel]) = 1
  /\ graph[Rel][1].names = <<>>
  /\ graph[Rel][1].props.number = <<"A", "b">>
  /\ graph[Rel][1].props.text = NULL
  /\ ret.total = 1

\* C7: with searchTerm absent or empty every subject related to the article
\* is counted and eligible for the page, with or without a Name; the total is
\* the same for every skip and limit, and at least the rows of the page.
C7_NoTermNoPredicate ==
  (pc = "returned" /\ op \in PaginatedOps /\ ~Truthy(filter.searchTerm)) =>
     LET related == IF filter.articleId = AnchorId THEN 1..Len(graph[Rel]) ELSE {}
         page == PageRows(graph, Rel, filter)
     IN  /\ ret.total >= Cardinality(related)
         /\ \A i \in related : \E j \in 1..Len(page) : page[j].elementId = i
         /\ \A s \in 0..MaxSkip : \A l \in 0..MaxLimit :
              ExtractTotal(CountQuery(graph, Rel,
                 [filter EXCEPT !.skip = s, !.limit = l])).value = ret.total
         /\ ret.total >= Len(pageCall.value)

C7_Witness ==
  /\ pc = "returned" /\ op = "getCasesCitingArticle"
  /\ filter.searchTerm = <<>> /\ filter.articleId = AnchorId
  /\ filter.skip = 1 /\ filter.limit = 1
  /\ \E i \in 1..Len(graph[Rel]) : graph[Rel][i].names = <<>>
  /\ \E i \in 1..Len(graph[Rel]) : graph[Rel][i].names # <<>>
  /\ ret.total = 2 /\ Len(pageCall.value) = 1

\* C9: the count-only operation returns the total the paginated operation of
\* its relation returns for the same articleId and no search term, for any
\* skip and limit.
C9_CountOnlyIsTotal ==
  /\ (pc = "returned" /\ op \in CountOps) =>
        \A term \in {NULL, <<>>} : \A s \in 0..MaxSkip : \A l \in 0..MaxLimit :
           ExtractTotal(CountQuery(graph, Rel,
              [articleId |-> filter.articleId, searchTerm |-> term,
               skip |-> s, limit |-> l])).value = ret
  /\ (pc = "returned" /\ op \in PaginatedOps /\ ~Truthy(filter.searchTerm)) =>
        ExtractCount(CountOnlyQuery(graph, Rel, filter.articleId)) = Value(ret.total)
  /\ op \in CountOps => pc # "thrown"

C9_Witness ==
  /\ pc = "returned" /\ op = "getArticleCitingOtherArticlesCount"
  /\ ret = 3
  /\ \E i \in 1..Len(graph[Rel]) : Len(graph[Rel][i].names) = 2

Settled(p) == p.state \in {"fulfilled", "rejected"}

\* The documents of the lookups, in page-row order, then hit order
Flattened == Flatten([k \in 1..Len(lookups) |-> lookups[k].value])

Named(doc) == Truthy(doc[NameKey(op)])

\* C2: in the items of the three enriched operations every document with a
\* truthy name (caseName for the cases) comes before every document without,
\* and documents of equal name-presence keep the order of the flattened
\* per-row lookup results.
C2_NamedFirstStable ==
  (pc = "returned" /\ op \in EnrichedOps) =>
     ret.items = SelectSeq(Flattened, Named) \o
                 SelectSeq(Flattened, LAMBDA doc : ~Named(doc))

\* C2's case: a named document after an unnamed one, two of each kind, over
\* two rows whose lookups settled in the other order
C2_Witness ==
  /\ pc = "returned" /\ op = "getCasesCitingArticle"
  /\ Len(lookups) = 2 /\ Len(Flattened) = 3
  /\ ~Named(Flattened[1]) /\ Named(Flattened[2]) /\ Named(Flattened[3])
  /\ Len(lookups[1].value) = 1
  /\ ret.items[3] = Flattened[1]

\* C3: when the count query of a paginated operation is answered with no
\* row, the operation returns total = 0; it fails only if a call failed, and
\* then with that call's error.
C3_EmptyCountIsZero ==
  (op \in PaginatedOps /\ Done /\ countCall = Fulfilled(<<>>)) =>
     IF failures = <<>> THEN pc = "returned" /\ ret.total = 0
     ELSE pc = "thrown" /\ thrown = failures[1]

C3_Witness ==
  /\ op = "getReferencesWithArticle" /\ pc = "returned"
  /\ countCall = Fulfilled(<<>>)
  /\ Len(ret.items) = 2 /\ ret.total = 0

\* C4: a count-only operation whose count query is answered with no row
\* returns zero and raises no error.
C4_CountOnlyEmptyIsZero ==
  (op \in CountOps /\ Done /\ countCall = Fulfilled(<<>>)) =>
     pc = "returned" /\ ret = 0

\* C5: in every paginated operation, whatever the order of completions, once
\* a call has failed the operation returns no result: the Promise.all it
\* awaits is rejected with the error of the first call that failed, and the
\* operation ends throwing that error, unchanged.
C5_FailurePropagates ==
  op \in PaginatedOps =>
     /\ failures # <<>> =>
           /\ pc \in {"awaitFetch", "awaitLookups", "thrown"}
           /\ ret = Unset
           /\ pc = "awaitFetch" => fetchAll = Rejected(failures[1])
           /\ pc = "awaitLookups" => lookupAll = Rejected(failures[1])
     /\ pc = "thrown" => failures # <<>> /\ thrown = failures[1]

\* C5's case: the first lookup fulfilled, the second rejected, the operation
\* threw the second's error
C5_Witness ==
  /\ op \in EnrichedOps /\ pc = "thrown"
  /\ Len(lookups) = 2
  /\ lookups[1].state = "fulfilled" /\ lookups[1].value # <<>>
  /\ thrown = ELookup(2)

Searches == SelectSeq(issued, LAMBDA call : call[1] = "search")

\* One lookup per row of the page, in the rows' order
ExpectedSearches ==
  [k \in 1..Len(pageCall.value) |->
     <<"search", IndexOf(op), pageCall.value[k].props.number>>]

\* C10: in the enriched operations the count and the page query are both
\* issued before either is awaited; no lookup is issued before both are
\* fulfilled; one lookup is issued per page row, all of them before any is
\* awaited; the result is returned after every lookup is fulfilled.
C10_FanOutFanIn ==
  op \in EnrichedOps =>
     /\ (pc = "awaitFetch" \/ Settled(countCall) \/ Settled(pageCall)) =>
           SubSeq(issued, 1, 2) = <<(<<"count">>), (<<"page">>)>>
     /\ Searches # <<>> =>
           /\ countCall.state = "fulfilled" /\ pageCall.state = "fulfilled"
           /\ Len(Searches) <= Len(ExpectedSearches)
           /\ Searches = SubSeq(ExpectedSearches, 1, Len(Searches))
     /\ (pc = "awaitLookups" \/ \E k \in 1..Len(lookups) : Settled(lookups[k])) =>
           Searches = ExpectedSearches
     /\ pc = "returned" =>
           /\ Len(lookups) = Len(pageCall.value)
           /\ \A k \in 1..Len(lookups) : lookups[k].state = "fulfilled"

\* C10's case: two rows, the page answered before the count, the second
\* lookup before the first
C10_Witness ==
  /\ op \in EnrichedOps /\ pc = "awaitLookups"
  /\ Len(lookups) = 2
  /\ lookups[1].state = "pending" /\ lookups[2].state = "fulfilled"
  /\ Len(issued) = 4

====
